---------------------------- MODULE Spec2Model ----------------------------
(***************************************************************************)
(* Loan calculator (src/loan.py): the EMI calculator, the repayment        *)
(* schedule generator, the console program main() with its validated       *)
(* prompts, and the browser form's Calculate handler.                      *)
(*                                                                         *)
(* Numbers.  The program computes in IEEE doubles.  Here a double is a     *)
(* point of a fixed grid, or NaN, or Inf:                                  *)
(*   - money is counted in half-cents (200 units = 1 currency unit), so    *)
(*     that amounts below the 0.01 snap threshold exist on the grid;       *)
(*   - an annual rate is counted in tenths of a percent, so the monthly    *)
(*     rate (annual / 100) / 12 is  annual / RateDen;                      *)
(*   - (1 + r)^n is counted in 1/FScale;                                   *)
(*   - addition and subtraction are exact, a product or quotient is        *)
(*     rounded to the nearest grid point (as a double rounds to the        *)
(*     nearest double), NaN propagates, comparisons with NaN are false.    *)
(***************************************************************************)
EXTENDS Integers, Sequences, FiniteSets

VARIABLES
    pc,                  \* where the console program / the caller is
    principal,           \* loan_amount, the principal argument
    annual_interest_rate,
    loan_term_months,
    emi,                 \* what calculate_emi returned / the emi argument
    emiFromCalc,         \* TRUE when emi is calculate_emi's return value
    month,               \* loop variable of generate_repayment_schedule
    remaining_balance,
    total_interest_paid,
    records,             \* the rows handed to print, in order
    totals,              \* <<the two totals printed after the loop>>, <<>> before
    lastError,           \* last error message get_numeric_input printed
    errors_printed,      \* how many error messages were printed
    loanAmountInput,     \* form: the three input fields' values
    interestRateInput,
    loanTermInput,
    errorShown,          \* form: errorBox is visible
    errorText,           \* form: errorBox.textContent
    resultsShown,        \* form: resultsArea is visible
    resultEls,           \* form: text of monthlyPayment/totalInterest/totalAmount (cents)
    clicked              \* form: the display is that of a click on the current fields

coreVars == <<pc, principal, annual_interest_rate, loan_term_months, emi,
              emiFromCalc, month, remaining_balance, total_interest_paid,
              records, totals>>
consoleVars == <<lastError, errors_printed>>
formVars == <<loanAmountInput, interestRateInput, loanTermInput, errorShown,
              errorText, resultsShown, resultEls, clicked>>
vars == <<coreVars, consoleVars, formVars>>

-----------------------------------------------------------------------------
(* The number grid *)

\* Largest magnitude of the grid (stands for the largest finite double).
FloatMax == 2100000000
Inf == FloatMax + 1
NaN == FloatMax + 2

\* (1 + r)^n is held in units of 1/FScale.
FScale == 10000
\* monthly rate = (annual / 100) / 12, annual in tenths of a percent.
RateDen == 12000
\* abs(remaining_balance) < 0.01, in half-cents.
SnapThreshold == 2

IsNum(x) == x # NaN /\ x # Inf

\* a / b rounded to the nearest integer (b > 0), without forming 2 * a.
RoundDiv(a, b) == (a \div b) + (IF 2 * (a % b) >= b THEN 1 ELSE 0)

\* a * n / d rounded to the nearest integer (n >= 0, d > 0), without forming a * n.
MulDiv(a, n, d) == (a \div d) * n + RoundDiv((a % d) * n, d)

FAdd(a, b) == IF a = NaN \/ b = NaN THEN NaN
              ELSE IF a = Inf \/ b = Inf THEN Inf
              ELSE a + b

\* Inf - Inf is NaN; the model never subtracts Inf from a finite number.
FSub(a, b) == IF a = NaN \/ b = NaN \/ b = Inf THEN NaN
              ELSE IF a = Inf THEN Inf
              ELSE a - b

\* x < y on doubles: false when either is NaN.
FLess(a, b) == a # NaN /\ b # NaN /\ a < b

FAbs(a) == IF IsNum(a) /\ a < 0 THEN 0 - a ELSE a

\* x * monthly_interest_rate, the monthly rate being rate / RateDen.
TimesMonthlyRate(x, rate) ==
    IF x = NaN \/ rate = NaN THEN NaN ELSE MulDiv(x, rate, RateDen)

\* principal / loan_term_months.
FDivInt(x, n) == IF x = NaN THEN NaN ELSE RoundDiv(x, n)

\* One multiplication by (1 + r) of a power held in 1/FScale; Inf on overflow.
PowStep(f, num) ==
    IF f = Inf \/ (f \div RateDen) >= (FloatMax \div num) THEN Inf
    ELSE MulDiv(f, num, RateDen)

\* k more multiplications by (1 + r), from f0.
RECURSIVE PowFrom(_, _, _)
PowFrom(f0, num, k) == IF k = 0 THEN f0 ELSE PowStep(PowFrom(f0, num, k - 1), num)

\* The product of two powers held in 1/FScale; Inf on overflow.
PowMul(f, g) ==
    IF f = Inf \/ g = Inf \/ (f \div FScale) >= (FloatMax \div g) THEN Inf
    ELSE (f \div FScale) * g + (f % FScale) * (g \div FScale)
             + RoundDiv((f % FScale) * (g % FScale), FScale)

\* q-th power of y, y being (1 + r)^12.
RECURSIVE PowYears(_, _)
PowYears(y, q) == IF q = 0 THEN FScale ELSE PowMul(PowYears(y, q - 1), y)

\* pow(1 + monthly_interest_rate, n), n >= 1: whole years of twelve
\* multiplications each, then the months left over.
Pow(rate, n) ==
    IF rate = NaN THEN NaN
    ELSE LET num == RateDen + rate
         IN  PowFrom(PowYears(PowFrom(FScale, num, 12), n \div 12), num, n % 12)

\* "{x:.2f}" and x.toFixed(2): a number as text with two decimals (in cents).
Fmt2(x) == IF IsNum(x) THEN RoundDiv(x, 2) ELSE x

-----------------------------------------------------------------------------
(* calculate_emi *)

None == [none |-> TRUE, val |-> 0]
Num(x) == [none |-> FALSE, val |-> x]

ZeroRateEmiNoDivision(P, n) == IF n > 0 THEN P ELSE 0

\* line 62: principal / loan_term_months if loan_term_months > 0 else 0
ZeroRateEmi(P, n) == IF n > 0 THEN FDivInt(P, n) ELSE 0

\* line 75: principal * r * f / (f - 1), as  t + t / (f - 1)  with t = principal * r
EmiFormula(P, rate, f) ==
    IF P = NaN \/ rate = NaN \/ f = NaN THEN NaN
    ELSE LET t == MulDiv(P, rate, RateDen)
         IN  t + MulDiv(t, FScale, f - FScale)

calculate_emi(P, rate, n) ==
    IF rate = 0 THEN Num(ZeroRateEmi(P, n))
    ELSE IF n <= 0 THEN None
    ELSE Num(EmiFormula(P, rate, Pow(rate, n)))

-----------------------------------------------------------------------------
(* generate_repayment_schedule *)

\* line 98: remaining_balance * monthly_interest_rate
InterestPaid(remaining, rate) == TimesMonthlyRate(remaining, rate)

PrincipalPaidNoFinalAdjust(e, interest, remaining, m, n) == FSub(e, interest)

\* lines 102-104: emi - interest_paid, and the whole balance in the final month
PrincipalPaid(e, interest, remaining, m, n) ==
    IF m = n THEN remaining ELSE FSub(e, interest)

ClosingBalanceLessInterest(remaining, principal_paid, interest) ==
    FSub(FSub(remaining, principal_paid), interest)

\* line 106: remaining_balance - principal_paid (the interest takes no part)
ClosingBalance(remaining, principal_paid, interest) ==
    FSub(remaining, principal_paid)

AccumulateInterestOverwrite(total, interest) == interest

\* line 109: total_interest_paid += interest_paid
AccumulateInterest(total, interest) == FAdd(total, interest)

\* lines 112-116: the balance carried to the next month
NextRemaining(closing) ==
    IF FLess(FAbs(closing), SnapThreshold) THEN 0 ELSE closing

LoopContinuesOneShort(m, n) == m < n

\* line 96: month in range(1, loan_term_months + 1)
LoopContinues(m, n) == m <= n

\* lines 88-94 and the first value of the loop variable
BeginSchedule ==
    /\ remaining_balance' = principal
    /\ total_interest_paid' = 0
    /\ month' = 1
    /\ records' = <<>>
    /\ totals' = <<>>
    /\ pc' = "loop"

\* lines 97-116: one pass of the loop body
ScheduleStep ==
    /\ pc = "loop"
    /\ LoopContinues(month, loan_term_months)
    /\ LET interest_paid == InterestPaid(remaining_balance, annual_interest_rate)
           principal_paid == PrincipalPaid(emi.val, interest_paid, remaining_balance,
                                           month, loan_term_months)
           closing_balance == ClosingBalance(remaining_balance, principal_paid,
                                             interest_paid)
       IN  /\ total_interest_paid' = AccumulateInterest(total_interest_paid, interest_paid)
           /\ records' = Append(records,
                                [month |-> month,
                                 openingBalance |-> remaining_balance,
                                 interestPortion |-> interest_paid,
                                 principalPortion |-> principal_paid,
                                 closingBalance |-> closing_balance])
           /\ remaining_balance' = NextRemaining(closing_balance)
    /\ month' = month + 1
    /\ UNCHANGED <<pc, principal, annual_interest_rate, loan_term_months, emi,
                   emiFromCalc, totals, consoleVars, formVars>>

\* lines 118-120: the loop is exhausted, the totals are printed
ScheduleFinish ==
    /\ pc = "loop"
    /\ ~LoopContinues(month, loan_term_months)
    /\ totals' = <<[totalInterest |-> Fmt2(total_interest_paid),
                    totalPaid |-> Fmt2(FAdd(principal, total_interest_paid))]>>
    /\ pc' = "done"
    /\ UNCHANGED <<principal, annual_interest_rate, loan_term_months, emi,
                   emiFromCalc, month, remaining_balance, total_interest_paid,
                   records, consoleVars, formVars>>

-----------------------------------------------------------------------------
(* main, from the call of calculate_emi on (lines 157-167) *)

\* line 157
CallCalculateEmi ==
    /\ pc = "call_emi"
    /\ emi' = calculate_emi(principal, annual_interest_rate, loan_term_months)
    /\ emiFromCalc' = TRUE
    /\ pc' = "emi_returned"
    /\ UNCHANGED <<principal, annual_interest_rate, loan_term_months, month,
                   remaining_balance, total_interest_paid, records, totals,
                   consoleVars, formVars>>

\* lines 159-165: the schedule is generated unless calculate_emi returned None
AfterEmi ==
    /\ pc = "emi_returned"
    /\ IF emi.none
       THEN /\ pc' = "done"
            /\ lastError' = "Could not calculate EMI"
            /\ UNCHANGED <<month, remaining_balance, total_interest_paid,
                           records, totals>>
       ELSE /\ BeginSchedule
            /\ UNCHANGED lastError
    /\ UNCHANGED <<principal, annual_interest_rate, loan_term_months, emi,
                   emiFromCalc, errors_printed, formVars>>

-----------------------------------------------------------------------------
(* The two core functions called with arguments drawn from bounded sets *)

MaxTerm == 3
\* half-cents: 0.015, 0.035, 10.00, 1200.00
Principals == {3, 7, 2000, 240000}
\* tenths of a percent: 0 %, 10 %, 120 %
Rates == {0, 100, 1200}
\* an emi argument that calculate_emi did not compute
EmiValues == {0 - 4, 0, 700}

FormIdle ==
    /\ loanAmountInput = [text |-> "num", tenths |-> 100000]
    /\ interestRateInput = [text |-> "num", tenths |-> 50]
    /\ loanTermInput = [text |-> "num", tenths |-> 50]
    /\ errorShown = FALSE
    /\ errorText = ""
    /\ resultsShown = FALSE
    /\ resultEls = [monthlyPayment |-> 0, totalInterest |-> 0, totalAmount |-> 0]
    /\ clicked = FALSE

ScheduleIdle ==
    /\ emi = None
    /\ emiFromCalc = FALSE
    /\ month = 0
    /\ remaining_balance = 0
    /\ total_interest_paid = 0
    /\ records = <<>>
    /\ totals = <<>>

Init ==
    /\ pc = "call_emi"
    /\ principal \in Principals
    /\ annual_interest_rate \in Rates
    /\ loan_term_months \in 0..MaxTerm
    /\ ScheduleIdle
    /\ lastError = ""
    /\ errors_printed = 0
    /\ FormIdle

\* generate_repayment_schedule called with an emi of the caller's choosing
DirectSchedule ==
    /\ pc = "call_emi"
    /\ \E e \in EmiValues : emi' = Num(e)
    /\ emiFromCalc' = FALSE
    /\ BeginSchedule
    /\ UNCHANGED <<principal, annual_interest_rate, loan_term_months,
                   consoleVars, formVars>>

Next ==
    \/ CallCalculateEmi
    \/ AfterEmi
    \/ DirectSchedule
    \/ ScheduleStep
    \/ ScheduleFinish

Spec == Init /\ [][Next]_vars

\* The loop is a synchronous for loop: a pass that can run does run.
FairSpec == Spec /\ WF_vars(ScheduleStep) /\ WF_vars(ScheduleFinish)

-----------------------------------------------------------------------------
(* Properties of the two core functions (checked under Spec and FairSpec) *)

RECURSIVE SumInterest(_)
SumInterest(rs) ==
    IF rs = <<>> THEN 0
    ELSE FAdd(SumInterest(SubSeq(rs, 1, Len(rs) - 1)), rs[Len(rs)].interestPortion)

RECURSIVE SumPrincipal(_)
SumPrincipal(rs) ==
    IF rs = <<>> THEN 0
    ELSE FAdd(SumPrincipal(SubSeq(rs, 1, Len(rs) - 1)), rs[Len(rs)].principalPortion)

ScheduleFinished == pc = "done" /\ Len(totals) = 1

\* C1 as stated: in every record of a schedule run with calculate_emi's EMI,
\* openingBalance - closingBalance = interestPortion + principalPortion.
C1_BalanceDropIsWholePayment ==
    emiFromCalc =>
        \A i \in DOMAIN records :
            FSub(records[i].openingBalance, records[i].closingBalance)
                = FAdd(records[i].interestPortion, records[i].principalPortion)

\* C1 amended: in every record of a schedule run with calculate_emi's EMI,
\* openingBalance - closingBalance = principalPortion alone, and
\* interestPortion + principalPortion = EMI in every period but the last.
C1_BalanceDropIsPrincipalPortion ==
    emiFromCalc =>
        \A i \in DOMAIN records :
            /\ FSub(records[i].openingBalance, records[i].closingBalance)
                   = records[i].principalPortion
            /\ records[i].month < loan_term_months =>
                   FAdd(records[i].interestPortion, records[i].principalPortion)
                       = emi.val

C1_Witness ==
    /\ emiFromCalc
    /\ Len(records) >= 2
    /\ \E i \in DOMAIN records :
           records[i].interestPortion > 0 /\ records[i].month < loan_term_months

\* C2 as stated: calculate_emi(P, r, 0) returns None for every P and every r,
\* r = 0 included.
C2_ZeroTermIsNone ==
    (pc = "emi_returned" /\ loan_term_months = 0) => emi.none

\* C3 as stated: period 1 opens with the principal and every later period
\* opens with the closingBalance emitted for the period before it.
C3_OpeningIsPreviousClosing ==
    \A i \in DOMAIN records :
        /\ i = 1 => records[i].openingBalance = principal
        /\ i > 1 => records[i].openingBalance = records[i - 1].closingBalance

\* C4: the record of the final period (month = loan_term_months) closes at
\* exactly 0, whatever the emi and whatever balance the earlier periods left.
C4_FinalClosingIsZero ==
    \A i \in DOMAIN records :
        records[i].month = loan_term_months => records[i].closingBalance = 0

C4_Witness ==
    /\ ScheduleFinished
    /\ ~emiFromCalc
    /\ loan_term_months >= 2
    /\ Len(records) = loan_term_months
    /\ records[loan_term_months].openingBalance # 0
    /\ records[loan_term_months].openingBalance # principal

\* C5: for loan_term_months >= 1 the generator terminates, and when it has
\* it emitted exactly loan_term_months records, numbered 1, 2, ... in order.
C5_ExactlyTermRecords ==
    /\ [](ScheduleFinished /\ loan_term_months >= 1 =>
              /\ Len(records) = loan_term_months
              /\ \A i \in DOMAIN records : records[i].month = i)
    /\ ((pc = "loop") ~> ScheduleFinished)

C5_Witness ==
    ScheduleFinished /\ Len(records) >= 3

\* C6: when the generator finishes, total_interest_paid is the sum of the
\* records' interestPortion, and the totals printed are that sum and
\* principal + that sum (each with two decimals).
C6_TotalsAreSums ==
    ScheduleFinished =>
        /\ total_interest_paid = SumInterest(records)
        /\ totals[1].totalInterest = Fmt2(SumInterest(records))
        /\ totals[1].totalPaid = Fmt2(FAdd(principal, SumInterest(records)))

C6_Witness ==
    /\ ScheduleFinished
    /\ Len(records) >= 2
    /\ records[1].interestPortion > 0
    /\ records[2].interestPortion > 0

C10_PrincipalRepaidExactly ==
    (ScheduleFinished /\ emiFromCalc /\ loan_term_months >= 1) =>
        SumPrincipal(records) = principal

-----------------------------------------------------------------------------
(* The console program: get_numeric_input and main *)

\* lines 4-9, money in half-cents and rates in tenths of a percent
MIN_LOAN_AMOUNT == 2000000
MAX_LOAN_AMOUNT == 2000000000
MIN_INTEREST_RATE == 10
MAX_INTEREST_RATE == 300
MIN_LOAN_TERM_MONTHS == 12
MAX_LOAN_TERM_MONTHS == 360

\* A line typed at a prompt: text that is no number ("abc"), the text "nan",
\* or a numeral; whole = written without a decimal point, value = its value
\* on the grid of the quantity asked for.
NotANumber == [kind |-> "text", whole |-> FALSE, value |-> 0]
NanText == [kind |-> "nan", whole |-> FALSE, value |-> 0]
Numeral(v, w) == [kind |-> "num", whole |-> w, value |-> v]

\* line 29, value_type(user_input): float() reads "nan" as NaN; int() accepts
\* only a numeral without a decimal point; anything else raises ValueError.
Convert(value_type, user_input) ==
    IF user_input.kind = "num" /\ (value_type = "float" \/ user_input.whole)
    THEN [ok |-> TRUE, value |-> user_input.value]
    ELSE IF user_input.kind = "nan" /\ value_type = "float"
    THEN [ok |-> TRUE, value |-> NaN]
    ELSE [ok |-> FALSE, value |-> 0]

\* lines 31-36 (every caller passes both bounds)
RangeCheck(value, min_val, max_val) ==
    IF FLess(value, min_val) THEN "at least"
    ELSE IF FLess(max_val, value) THEN "at most"
    ELSE "ok"

\* lines 27-40: one pass of the while loop, on one line of input
get_numeric_input(user_input, value_type, min_val, max_val) ==
    LET c == Convert(value_type, user_input)
        verdict == IF c.ok THEN RangeCheck(c.value, min_val, max_val)
                   ELSE "invalid"
    IN  [returned |-> verdict = "ok", value |-> c.value, error |-> verdict]

MaxErrors == 2

AmountInputs == {NotANumber, NanText, Numeral(1999800, TRUE), Numeral(2000000, TRUE),
                 Numeral(2000100, FALSE), Numeral(2000000200, TRUE)}
RateInputs == {NotANumber, NanText, Numeral(0, TRUE), Numeral(5, FALSE),
               Numeral(10, TRUE), Numeral(75, FALSE), Numeral(300, TRUE),
               Numeral(301, FALSE)}
YearInputs == {NotANumber, NanText, Numeral(1, FALSE), Numeral(0, TRUE),
               Numeral(1, TRUE), Numeral(2, TRUE), Numeral(31, TRUE)}

\* the error message of a rejected line is printed and the prompt repeats
Reprompt(r) ==
    /\ errors_printed < MaxErrors
    /\ lastError' = r.error
    /\ errors_printed' = errors_printed + 1

\* lines 131-135
AskLoanAmount ==
    /\ pc = "ask_amount"
    /\ \E user_input \in AmountInputs :
         LET r == get_numeric_input(user_input, "float", MIN_LOAN_AMOUNT,
                                    MAX_LOAN_AMOUNT)
         IN  IF r.returned
             THEN principal' = r.value /\ pc' = "ask_rate" /\ UNCHANGED consoleVars
             ELSE Reprompt(r) /\ UNCHANGED <<pc, principal>>
    /\ UNCHANGED <<annual_interest_rate, loan_term_months, emi, emiFromCalc, month,
                   remaining_balance, total_interest_paid, records, totals, formVars>>

\* lines 137-141
AskInterestRate ==
    /\ pc = "ask_rate"
    /\ \E user_input \in RateInputs :
         LET r == get_numeric_input(user_input, "float", MIN_INTEREST_RATE,
                                    MAX_INTEREST_RATE)
         IN  IF r.returned
             THEN annual_interest_rate' = r.value /\ pc' = "ask_years"
                  /\ UNCHANGED consoleVars
             ELSE Reprompt(r) /\ UNCHANGED <<pc, annual_interest_rate>>
    /\ UNCHANGED <<principal, loan_term_months, emi, emiFromCalc, month,
                   remaining_balance, total_interest_paid, records, totals, formVars>>

\* lines 143-154: the term in years, then loan_term_months = loan_term_years * 12
AskLoanTerm ==
    /\ pc = "ask_years"
    /\ \E user_input \in YearInputs :
         LET r == get_numeric_input(user_input, "int", MIN_LOAN_TERM_MONTHS \div 12,
                                    MAX_LOAN_TERM_MONTHS \div 12)
         IN  IF r.returned
             THEN loan_term_months' = r.value * 12 /\ pc' = "call_emi"
                  /\ UNCHANGED consoleVars
             ELSE Reprompt(r) /\ UNCHANGED <<pc, loan_term_months>>
    /\ UNCHANGED <<principal, annual_interest_rate, emi, emiFromCalc, month,
                   remaining_balance, total_interest_paid, records, totals, formVars>>

InitMain ==
    /\ pc = "ask_amount"
    /\ principal = 0
    /\ annual_interest_rate = 0
    /\ loan_term_months = 0
    /\ ScheduleIdle
    /\ lastError = ""
    /\ errors_printed = 0
    /\ FormIdle

NextMain ==
    \/ AskLoanAmount
    \/ AskInterestRate
    \/ AskLoanTerm
    \/ CallCalculateEmi
    \/ AfterEmi
    \/ ScheduleStep
    \/ ScheduleFinish

SpecMain == InitMain /\ [][NextMain]_vars

InRange(x, lo, hi) == x # NaN /\ lo <= x /\ x <= hi

\* C9 as stated: in every run of main, whatever is typed, get_numeric_input
\* returns only values within [min_val, max_val], and the schedule generator is
\* invoked only after calculate_emi returned a number, with loan_term_months >= 1.
C9_OnlyValidatedValuesReachTheSchedule ==
    /\ pc # "ask_amount" => InRange(principal, MIN_LOAN_AMOUNT, MAX_LOAN_AMOUNT)
    /\ pc \notin {"ask_amount", "ask_rate"} =>
           InRange(annual_interest_rate, MIN_INTEREST_RATE, MAX_INTEREST_RATE)
    /\ pc \notin {"ask_amount", "ask_rate", "ask_years"} =>
           InRange(loan_term_months, MIN_LOAN_TERM_MONTHS, MAX_LOAN_TERM_MONTHS)
    /\ pc = "loop" => emiFromCalc /\ ~emi.none /\ loan_term_months >= 1

\* The order of calls alone: the schedule runs only on a numeric return of
\* calculate_emi and with a term >= 1 (this holds; NaN is a numeric return).
MainScheduleGuarded ==
    pc = "loop" => emiFromCalc /\ ~emi.none /\ loan_term_months >= 1

-----------------------------------------------------------------------------
(* The browser form: the click handler of calculateBtn (lines 253-295) *)

\* The value of a number field: empty (also what the browser reports for text
\* that is no number), or a decimal numeral, held in tenths.
EmptyField == [text |-> "empty", tenths |-> 0]
Field(t) == [text |-> "num", tenths |-> t]

\* line 259: parseFloat of the amount field, in half-cents
ParseAmount(field) == IF field.text = "empty" THEN NaN ELSE field.tenths * 20

\* line 260: parseFloat of the rate field, in tenths of a percent
ParseRate(field) == IF field.text = "empty" THEN NaN ELSE field.tenths

\* line 261: parseInt of the term field: the digits before the decimal point
ParseIntYears(field) ==
    IF field.text = "empty" THEN NaN
    ELSE IF field.tenths >= 0 THEN field.tenths \div 10
    ELSE 0 - ((0 - field.tenths) \div 10)

FormInputsInvalidZeroAmountPasses(P, R, Y) ==
    \/ P = NaN \/ P < 0
    \/ R = NaN \/ R < 0
    \/ Y = NaN \/ Y <= 0

\* lines 263-265
FormInputsInvalid(P, R, Y) ==
    \/ P = NaN \/ P <= 0
    \/ R = NaN \/ R < 0
    \/ Y = NaN \/ Y <= 0

\* lines 274-279: Inf / Inf is NaN when the power overflows, x / 0 is Infinity
\* when the power is exactly 1
MonthlyPayment(P, R, numberOfPayments) ==
    IF R = 0 THEN FDivInt(P, numberOfPayments)
    ELSE LET f == Pow(R, numberOfPayments)
         IN  IF f = Inf THEN NaN
             ELSE IF f = FScale THEN Inf
             ELSE EmiFormula(P, R, f)

\* line 281: monthlyPayment * numberOfPayments
TotalAmountPaid(monthlyPayment, numberOfPayments) ==
    IF IsNum(monthlyPayment) THEN monthlyPayment * numberOfPayments ELSE monthlyPayment

\* line 284: isNaN(monthlyPayment) || !isFinite(monthlyPayment)
PaymentNotFinite(monthlyPayment) == ~IsNum(monthlyPayment)

AmountFields == {EmptyField, Field(0 - 10), Field(0), Field(100), Field(100000)}
RateFields == {EmptyField, Field(0 - 5), Field(0), Field(50), Field(12000)}
TermFields == {EmptyField, Field(0 - 10), Field(0), Field(5), Field(20), Field(50)}

TypeLoanAmount ==
    /\ \E f \in AmountFields : loanAmountInput' = f
    /\ clicked' = FALSE
    /\ UNCHANGED <<interestRateInput, loanTermInput, errorShown, errorText,
                   resultsShown, resultEls, coreVars, consoleVars>>

TypeInterestRate ==
    /\ \E f \in RateFields : interestRateInput' = f
    /\ clicked' = FALSE
    /\ UNCHANGED <<loanAmountInput, loanTermInput, errorShown, errorText,
                   resultsShown, resultEls, coreVars, consoleVars>>

TypeLoanTerm ==
    /\ \E f \in TermFields : loanTermInput' = f
    /\ clicked' = FALSE
    /\ UNCHANGED <<loanAmountInput, interestRateInput, errorShown, errorText,
                   resultsShown, resultEls, coreVars, consoleVars>>

\* lines 253-295, the whole handler
Click ==
    LET P == ParseAmount(loanAmountInput)
        R == ParseRate(interestRateInput)
        Y == ParseIntYears(loanTermInput)
    IN  /\ clicked' = TRUE
        /\ IF FormInputsInvalid(P, R, Y)
           THEN /\ errorText' = "Please enter valid positive numbers for all fields."
                /\ errorShown' = TRUE
                /\ resultsShown' = FALSE
                /\ UNCHANGED resultEls
           ELSE LET numberOfPayments == Y * 12
                    monthlyPayment == MonthlyPayment(P, R, numberOfPayments)
                    totalAmountPaid == TotalAmountPaid(monthlyPayment, numberOfPayments)
                    totalInterestPaid == FSub(totalAmountPaid, P)
                IN  IF PaymentNotFinite(monthlyPayment)
                    THEN /\ errorText' = "Could not calculate payment."
                         /\ errorShown' = TRUE
                         /\ resultsShown' = FALSE
                         /\ UNCHANGED resultEls
                    ELSE /\ errorText' = ""
                         /\ errorShown' = FALSE
                         /\ resultsShown' = TRUE
                         /\ resultEls' = [monthlyPayment |-> Fmt2(monthlyPayment),
                                          totalInterest |-> Fmt2(totalInterestPaid),
                                          totalAmount |-> Fmt2(totalAmountPaid)]
        /\ UNCHANGED <<loanAmountInput, interestRateInput, loanTermInput,
                       coreVars, consoleVars>>

InitForm ==
    /\ pc = "form"
    /\ principal = 0
    /\ annual_interest_rate = 0
    /\ loan_term_months = 0
    /\ ScheduleIdle
    /\ lastError = ""
    /\ errors_printed = 0
    /\ FormIdle

NextForm ==
    \/ TypeLoanAmount
    \/ TypeInterestRate
    \/ TypeLoanTerm
    \/ Click

SpecForm == InitForm /\ [][NextForm]_vars

\* The fields as the handler reads them, and the payment it computes from them.
FieldAmount == ParseAmount(loanAmountInput)
FieldRate == ParseRate(interestRateInput)
FieldYears == ParseIntYears(loanTermInput)
FieldPaymentNotFinite ==
    /\ ~FormInputsInvalid(FieldAmount, FieldRate, FieldYears)
    /\ ~IsNum(MonthlyPayment(FieldAmount, FieldRate, FieldYears * 12))
ErrorDisplayed == errorShown /\ errorText # "" /\ ~resultsShown

\* C8 as stated: after a click with a field that is no number or not positive
\* (amount, rate or term), or with a non-finite payment, the error message is
\* shown and the results area is hidden.
C8_NonPositiveInputsShowError ==
    (clicked /\ (\/ FieldAmount = NaN \/ FieldAmount <= 0
                 \/ FieldRate = NaN \/ FieldRate <= 0
                 \/ FieldYears = NaN \/ FieldYears <= 0
                 \/ FieldPaymentNotFinite))
        => ErrorDisplayed

\* C8 amended: after a click with a field that is no number, an amount <= 0,
\* a rate < 0, a term whose whole years are <= 0, or a non-finite payment, the
\* error message is shown and the results area is hidden; a rate of exactly 0
\* is accepted and its results are shown.
C8_InvalidInputsShowError ==
    /\ (clicked /\ (\/ FieldAmount = NaN \/ FieldAmount <= 0
                    \/ FieldRate = NaN \/ FieldRate < 0
                    \/ FieldYears = NaN \/ FieldYears <= 0
                    \/ FieldPaymentNotFinite))
           => ErrorDisplayed
    /\ (clicked /\ FieldRate = 0 /\ FieldAmount # NaN /\ FieldAmount > 0
                /\ FieldYears # NaN /\ FieldYears > 0)
           => resultsShown /\ ~errorShown

\* a click on a zero amount that follows a click whose results were shown
C8_Witness ==
    /\ clicked
    /\ FieldAmount = 0
    /\ FieldRate # NaN /\ FieldRate > 0
    /\ FieldYears # NaN /\ FieldYears > 0
    /\ resultEls.monthlyPayment > 0
    /\ ErrorDisplayed

=============================================================================
